---- MODULE Spec2Model ----
(***************************************************************************)
(* Model of northbright/hasher.                                            *)
(*                                                                         *)
(* Two layers of the repository are modelled:                              *)
(*   - the streaming engine (Hasher.Start with its own event types,        *)
(*     getHashesAndWriter, loadStates, outputStates, updateBufferSize);    *)
(*   - the accumulator-set API of hasher.go (newHasher,                    *)
(*     newHasherWithStates, States, Checksums).                            *)
(*                                                                         *)
(* The digest functions themselves belong to Go's standard library.  Each  *)
(* accumulator is modelled as a chaining value h and a byte counter n,     *)
(* with a binary snapshot <<magic, h, n>> that UnmarshalBinary validates.  *)
(***************************************************************************)
EXTENDS Integers, Sequences, FiniteSets, TLC

\* ------------------------------------------------------------------ bounds
\* Longest finite source, in bytes.
MaxLen == 3
\* Number of runs (the first one and its resumptions) of one scenario.
MaxRuns == 3
\* Modulus of the chaining value of the modelled accumulators.
HashMod == 5
\* Width, in bits, of the modelled byte counters.
CounterBits == 3
\* Number of calls of each listing function in one scenario.
MaxCalls == 2

\* The bytes of the modelled sources: a two-letter alphabet.
Byte == {0, 1}
CounterMod == 2 ^ CounterBits

\* ------------------------------------------------------- program constants
\* Buffer sizes are int64 values, wider than the integers of the checker: a
\* size is kept as gib * 2^30 + rem with 0 <= rem < 2^30.
GiB == 1024 * 1024 * 1024
Size(q, r) == [gib |-> q, rem |-> r]
SizeLeq(a, b) == a.gib < b.gib \/ (a.gib = b.gib /\ a.rem <= b.rem)
DefBufSize == Size(0, 32 * 1024)
MaxBufSize == Size(4, 0)

ErrNoHashFunc == "no hash function specified"
ErrUnmatchedHashFuncsAndStates == "unmatched hash functions and states"
ErrUnSupportedHashFunc == "unsupported hash function"
ErrUnSupportedHashAlg == "unsupported hash algorithm"
ErrNoStates == "no states"
ErrInvalidHashStateIdentifier == "invalid hash state identifier"
ErrInvalidHashStateSize == "invalid hash state size"
ErrNotBinaryMarshaler == "encoding.BinaryMarshaler not implemented"
ErrRead == "read error"
ErrNoChecksums == "no checksums computed"
ErrIncorrectComputedSize == "incorrect computed size"
ErrCanceled == "context canceled"
ErrDeadlineExceeded == "context deadline exceeded"
NoErr == "nil"

\* The registry: AvailableHashFuncs / hashAlgsToNewFuncs.
AvailableHashFuncs == <<"MD5", "CRC-32", "SHA-1", "SHA-256", "SHA-512">>
hashAlgsToNewFuncs == {"MD5", "SHA-1", "SHA-256", "SHA-512", "CRC-32"}

\* ---------------------------------------------------------------- helpers
Range(s) == {s[i] : i \in 1..Len(s)}
Min(a, b) == IF a < b THEN a ELSE b
EmptyMap == [x \in {} |-> <<>>]
\* A Go map value: nil, or a mapping.
NilMap == [isNil |-> TRUE, m |-> EmptyMap]
MkMap(f) == [isNil |-> FALSE, m |-> f]
\* A Go slice value: nil, or a sequence.
NilSlice == [isNil |-> TRUE, elems |-> <<>>]
MkSlice(s) == [isNil |-> FALSE, elems |-> s]
\* The orders in which a range loop may visit the keys of a map.
Orders(S) == {o \in [1..Cardinality(S) -> S] : Range(o) = S}

\* ------------------------------------------------ accumulators (hash.Hash)
Magic(name) ==
    CASE name = "MD5" -> 1
      [] name = "CRC-32" -> 2
      [] name = "SHA-1" -> 3
      [] name = "SHA-256" -> 4
      [] name = "SHA-512" -> 5
      [] OTHER -> 0

\* A fresh accumulator, as md5.New / crc32.NewIEEE / ... return it.
NewHash(name) == [h |-> Magic(name) % HashMod, n |-> 0]

\* hash.Hash.Write of one byte: chain the byte in, count it.
WriteByte(name, st, b) ==
    [h |-> (st.h * (Magic(name) + 1) + b + 1) % HashMod,
     n |-> (st.n + 1) % CounterMod]

RECURSIVE WriteBytes(_, _, _)
\* hash.Hash.Write of a chunk.
WriteBytes(name, st, bytes) ==
    IF bytes = <<>> THEN st
    ELSE WriteBytes(name, WriteByte(name, st, Head(bytes)), Tail(bytes))

\* hash.Hash.Sum(nil): finalisation over the chaining value and the length.
\* The first byte tells the digests of different algorithms apart, as their
\* lengths do.
Sum(name, st) ==
    <<17 * Magic(name) + 10, (st.h + st.n * (Magic(name) + 1)) % HashMod>>

\* encoding.BinaryMarshaler.MarshalBinary of an accumulator.
MarshalBinary(name, st) == <<Magic(name), st.h, st.n>>

\* encoding.BinaryUnmarshaler.UnmarshalBinary: the error it reports.
UnmarshalErr(name, blob) ==
    IF Len(blob) < 1 \/ blob[1] # Magic(name) THEN ErrInvalidHashStateIdentifier
    ELSE IF Len(blob) # 3 THEN ErrInvalidHashStateSize
    ELSE NoErr

\* encoding.BinaryUnmarshaler.UnmarshalBinary: the accumulator it restores.
UnmarshalBinary(name, st, blob) ==
    IF UnmarshalErr(name, blob) = NoErr THEN [h |-> blob[2], n |-> blob[3]]
    ELSE st

\* C27 mutant: the chunk reaches one accumulator only.
MultiWriteOneOnly(hashes, bytes) ==
    LET one == CHOOSE name \in DOMAIN hashes : TRUE IN
    [name \in DOMAIN hashes |->
        IF name = one THEN WriteBytes(name, hashes[name], bytes)
        ELSE hashes[name]]

\* io.MultiWriter(writers...).Write: the same chunk into every accumulator.
MultiWrite(hashes, bytes) ==
    [name \in DOMAIN hashes |-> WriteBytes(name, hashes[name], bytes)]

\* ------------------------------------------------------- engine: helpers
GetHashByName(name) ==
    IF name \in {"MD5", "CRC-32", "SHA-1", "SHA-256", "SHA-512"}
    THEN [hash |-> NewHash(name), err |-> NoErr]
    ELSE [hash |-> NewHash(name), err |-> ErrUnSupportedHashFunc]

\* C33 mutant: a size of zero or less is kept.
updateBufferSizeNoDefault(bufferSize) ==
    IF ~SizeLeq(bufferSize, MaxBufSize) THEN MaxBufSize ELSE bufferSize

updateBufferSize(bufferSize) ==
    IF SizeLeq(bufferSize, Size(0, 0)) THEN DefBufSize
    ELSE IF ~SizeLeq(bufferSize, MaxBufSize) THEN MaxBufSize
    ELSE bufferSize

\* New(hashFuncs, bufferSize): never fails, stores its arguments.
New(hashFuncs, bufferSize) ==
    [hashFuncs |-> hashFuncs, bufferSize |-> updateBufferSize(bufferSize)]

RECURSIVE getHashesLoop(_, _, _)
getHashesLoop(elems, i, hashes) ==
    IF i > Len(elems) THEN [ok |-> TRUE, hashes |-> hashes, err |-> NoErr]
    ELSE LET r == GetHashByName(elems[i]) IN
         IF r.err # NoErr
         THEN [ok |-> FALSE, hashes |-> EmptyMap, err |-> r.err]
         ELSE getHashesLoop(elems, i + 1,
                [name \in DOMAIN hashes \cup {elems[i]} |->
                    IF name = elems[i] THEN r.hash ELSE hashes[name]])

\* getHashesAndWriter: the accumulators of a run, or an error and nothing.
getHashesAndWriter(hashFuncs) ==
    IF hashFuncs.isNil \/ Len(hashFuncs.elems) = 0
    THEN [ok |-> FALSE, hashes |-> EmptyMap, err |-> ErrNoHashFunc]
    ELSE getHashesLoop(hashFuncs.elems, 1, EmptyMap)

\* C4 mutant: the states are not imported into the accumulators.
loadStatesNotLoaded(hs, st, order) ==
    IF st.isNil THEN [hashes |-> hs, err |-> NoErr]
    ELSE IF Cardinality(DOMAIN hs) # Cardinality(DOMAIN st.m)
    THEN [hashes |-> hs, err |-> ErrUnmatchedHashFuncsAndStates]
    ELSE IF \E name \in DOMAIN hs : name \notin DOMAIN st.m
    THEN [hashes |-> hs, err |-> ErrUnmatchedHashFuncsAndStates]
    ELSE [hashes |-> hs, err |-> NoErr]

RECURSIVE loadStatesLoop(_, _, _, _)
loadStatesLoop(hashes, m, order, i) ==
    IF i > Len(order) THEN [hashes |-> hashes, err |-> NoErr]
    ELSE LET name == order[i]
             e == UnmarshalErr(name, m[name])
         IN IF e # NoErr THEN [hashes |-> hashes, err |-> e]
            ELSE loadStatesLoop(
                   [hashes EXCEPT ![name] = UnmarshalBinary(name, @, m[name])],
                   m, order, i + 1)

\* C11 mutant: the numbers of accumulators and of states are not compared.
loadStatesNoLenCheck(hs, st, order) ==
    IF st.isNil THEN [hashes |-> hs, err |-> NoErr]
    ELSE IF \E name \in DOMAIN hs : name \notin DOMAIN st.m
    THEN [hashes |-> hs, err |-> ErrUnmatchedHashFuncsAndStates]
    ELSE loadStatesLoop(hs, st.m, order, 1)

\* loadStates(hashes, states); order is the order of the range over hashes.
loadStates(hashes, states, order) ==
    IF states.isNil THEN [hashes |-> hashes, err |-> NoErr]
    ELSE IF Cardinality(DOMAIN hashes) # Cardinality(DOMAIN states.m)
    THEN [hashes |-> hashes, err |-> ErrUnmatchedHashFuncsAndStates]
    ELSE IF \E name \in DOMAIN hashes : name \notin DOMAIN states.m
    THEN [hashes |-> hashes, err |-> ErrUnmatchedHashFuncsAndStates]
    ELSE loadStatesLoop(hashes, states.m, order, 1)

\* C6 mutant: snapshots of fresh accumulators are exported.
outputStatesOfOne(hs) ==
    [states |-> [name \in DOMAIN hs |->
                   MarshalBinary(name, NewHash(name))],
     err |-> NoErr]

\* The key of an accumulator of another implementation of hash.Hash, one
\* without MarshalBinary, in a map handed to outputStates.
ForeignHash == "FOREIGN"

\* hash.(encoding.BinaryMarshaler): the accumulators of the standard library
\* that GetHashByName returns all implement it (ok is true), an accumulator
\* of another implementation does not.
IsBinaryMarshaler(name) ==
    name \in {"MD5", "CRC-32", "SHA-1", "SHA-256", "SHA-512"}

\* outputStates(hashes): the snapshot of every accumulator, or nothing and
\* an error when one of them is not a BinaryMarshaler.
outputStates(hashes) ==
    IF \E name \in DOMAIN hashes : ~IsBinaryMarshaler(name)
    THEN [states |-> EmptyMap, err |-> ErrNotBinaryMarshaler]
    ELSE [states |-> [name \in DOMAIN hashes |->
                        MarshalBinary(name, hashes[name])],
          err |-> NoErr]

\* ---------------------------------------------------------------- events
NoEvent == [type |-> "None", err |-> NoErr, computed |-> 0, data |-> EmptyMap]
newErrorEvent(err) ==
    [type |-> "Error", err |-> err, computed |-> 0, data |-> EmptyMap]
\* C26 mutant: the report does not carry the counter.
newComputedEventZero(computed) ==
    [type |-> "Computed", err |-> NoErr, computed |-> 0, data |-> EmptyMap]

newComputedEvent(computed) ==
    [type |-> "Computed", err |-> NoErr, computed |-> computed, data |-> EmptyMap]
newStopEvent(computed, states) ==
    [type |-> "Stop", err |-> NoErr, computed |-> computed, data |-> states]
newOKEvent(computed, checksums) ==
    [type |-> "OK", err |-> NoErr, computed |-> computed, data |-> checksums]
IsTerminal(ev) == ev.type \in {"Error", "Stop", "OK"}

\* ------------------------------------------------------------ the sources
\* A source of bytes (io.Reader): data, read from offset pos on.  A finite
\* source reports end of stream after its last byte, or a read error at
\* offset errAt (errAt = -1: never).  An endless source repeats data and
\* never reports end of stream.
FiniteSources ==
    {[data |-> d, endless |-> FALSE, errAt |-> e] :
        d \in UNION {[1..l -> Byte] : l \in 0..MaxLen}, e \in -1..MaxLen}
EndlessSources ==
    {[data |-> d, endless |-> TRUE, errAt |-> -1] :
        d \in [1..1 -> Byte]}
Sources ==
    {s \in FiniteSources : s.errAt <= Len(s.data)} \cup EndlessSources
SmallSources == {s \in Sources : Len(s.data) <= 1 /\ s.errAt = -1 /\ ~s.endless}

\* The algorithm lists and saved states the scenarios are started with.
HashFuncsInputs ==
    {NilSlice, MkSlice(<<>>), MkSlice(<<"MD5">>), MkSlice(<<"CRC-32", "MD5">>),
     MkSlice(<<"MD5", "SHA-3">>), MkSlice(<<"SHA-3">>), MkSlice(<<"md5">>),
     MkSlice(<<"MD5", "MD5">>)}
StatesOf(names, bytes) ==
    MkMap([name \in names |->
             MarshalBinary(name, WriteBytes(name, NewHash(name), bytes))])
StatesInputs ==
    {NilMap, MkMap(EmptyMap),
     StatesOf({"MD5"}, <<1>>), StatesOf({"CRC-32", "MD5"}, <<1>>),
     StatesOf({"SHA-1"}, <<1>>),
     MkMap([name \in {"MD5"} |-> <<Magic("MD5"), 0>>]),
     MkMap([name \in {"MD5"} |-> <<Magic("CRC-32"), 0, 0>>]),
     MkMap([name \in {"CRC-32", "MD5"} |->
              IF name = "MD5" THEN <<Magic("MD5"), 0>>
              ELSE MarshalBinary(name, WriteBytes(name, NewHash(name), <<1>>))]),
     MkMap([name \in {"MD5", "SHA-3"} |->
              MarshalBinary("MD5", WriteBytes("MD5", NewHash("MD5"), <<1>>))])}
BufferSizeInputs == {Size(0, 0), Size(0, 1)}
IntervalInputs == {-1, 0, 1}

\* A configuration with which a run gets past its setup.
ValidConfig(hf, st) ==
    /\ getHashesAndWriter(hf).ok
    /\ \A o \in Orders(DOMAIN getHashesAndWriter(hf).hashes) :
          loadStates(getHashesAndWriter(hf).hashes, st, o).err = NoErr

VARIABLES
    hasher,       \* the Hasher: hashFuncs, bufferSize
    states,       \* Start's states argument
    interval,     \* Start's reportComputedInterval argument
    src,          \* the source behind Start's reader r
    pos,          \* offset of the next byte r returns
    ctxDone,      \* ctx.Done() is closed
    tickPending,  \* a tick waits in ticker.C
    pc,           \* position of the worker goroutine
    hashes,       \* the worker's accumulators
    computed,     \* the worker's computed
    written,      \* io.CopyBuffer's count of bytes copied so far
    ch,           \* the event the worker is blocked sending, or NoEvent
    closed,       \* ch is closed
    received,     \* the events the consumer received, in order
    consumer,     \* "ranging", "gone" (stopped receiving) or "exited"
    runNo,        \* number of the current run, from 1
    base,         \* offset of the source at which the current run began
    first,        \* the states argument of the first run
    cancelPos,    \* bytes hashed in this run when ctx was canceled, or -1
    api           \* the scenario of the accumulator-set API

engineVars == <<hasher, states, interval, src, pos, ctxDone, tickPending, pc,
                hashes, computed, written, ch, closed, received, consumer,
                runNo, base, first, cancelPos>>
vars == <<hasher, states, interval, src, pos, ctxDone, tickPending, pc,
          hashes, computed, written, ch, closed, received, consumer,
          runNo, base, first, cancelPos, api>>

ApiIdle == [pc |-> "idle"]

\* Start has been called: the worker goroutine exists and has not run yet.
InitRun(hf, b, st, iv, s) ==
    /\ hasher = New(hf, b)
    /\ states = st
    /\ interval = iv
    /\ src = s
    /\ pos = 0
    /\ ctxDone = FALSE
    /\ tickPending = FALSE
    /\ pc = "setup"
    /\ hashes = EmptyMap
    /\ computed = 0
    /\ written = 0
    /\ ch = NoEvent
    /\ closed = FALSE
    /\ received = <<>>
    /\ consumer = "ranging"
    /\ runNo = 1
    /\ base = 0
    /\ first = st
    /\ cancelPos = -1

Init ==
    /\ api = ApiIdle
    /\ \E hf \in HashFuncsInputs, st \in StatesInputs, b \in BufferSizeInputs,
          iv \in IntervalInputs, s \in Sources :
          /\ ValidConfig(hf, st) \/ (s \in SmallSources /\ b = Size(0, 0))
          /\ InitRun(hf, b, st, iv, s)

\* The worker's unbuffered send: it blocks at pc "send" until Receive.
Send(ev) ==
    /\ ch' = ev
    /\ pc' = "send"

\* C36 mutant: the worker fills its buffer from the source before it builds
\* the accumulators.
SetupReadsAhead ==
    /\ pc = "setup"
    /\ LET g == getHashesAndWriter(hasher.hashFuncs) IN
       IF ~g.ok
       THEN /\ Send(newErrorEvent(g.err))
            /\ UNCHANGED <<hashes, computed>>
       ELSE IF ~states.isNil
       THEN \E order \in Orders(DOMAIN g.hashes) :
              LET l == loadStates(g.hashes, states, order) IN
              IF l.err # NoErr
              THEN /\ Send(newErrorEvent(l.err))
                   /\ hashes' = l.hashes
                   /\ UNCHANGED computed
              ELSE /\ hashes' = l.hashes
                   /\ computed' = 0
                   /\ pc' = "ticker"
                   /\ UNCHANGED ch
       ELSE /\ hashes' = g.hashes
            /\ computed' = 0
            /\ pc' = "ticker"
            /\ UNCHANGED ch
    /\ pos' = IF ~src.endless /\ pos < Len(src.data) /\ pos # src.errAt
              THEN pos + 1 ELSE pos
    /\ UNCHANGED <<hasher, states, interval, src, ctxDone, tickPending,
                   written, closed, received, consumer, runNo, base, first, cancelPos, api>>

\* Start, lines 178-198: build the accumulators, import the states, set
\* computed to 0 and create the ticker.
Setup ==
    /\ pc = "setup"
    /\ LET g == getHashesAndWriter(hasher.hashFuncs) IN
       IF ~g.ok
       THEN /\ Send(newErrorEvent(g.err))
            /\ UNCHANGED <<hashes, computed>>
       ELSE IF ~states.isNil
       THEN \E order \in Orders(DOMAIN g.hashes) :
              LET l == loadStates(g.hashes, states, order) IN
              IF l.err # NoErr
              THEN /\ Send(newErrorEvent(l.err))
                   /\ hashes' = l.hashes
                   /\ UNCHANGED computed
              ELSE /\ hashes' = l.hashes
                   /\ computed' = 0
                   /\ pc' = "ticker"
                   /\ UNCHANGED ch
       ELSE /\ hashes' = g.hashes
            /\ computed' = 0
            /\ pc' = "ticker"
            /\ UNCHANGED ch
    /\ UNCHANGED <<hasher, states, interval, src, pos, ctxDone, tickPending,
                   written, closed, received, consumer, runNo, base, first, cancelPos, api>>

\* C32 mutant: a ticker is made whatever the interval.
HasTickerAlways == TRUE

\* Start, lines 196-198: the ticker is made only for a positive interval
\* (ticker != nil).
HasTicker == interval > 0

\* Start, lines 201-207: report computed when the ticker has fired.
LoopTicker ==
    /\ pc = "ticker"
    /\ IF HasTicker /\ tickPending
       THEN /\ Send(newComputedEvent(computed))
            /\ tickPending' = FALSE
       ELSE /\ pc' = "poll"
            /\ UNCHANGED <<ch, tickPending>>
    /\ UNCHANGED <<hasher, states, interval, src, pos, ctxDone, hashes,
                   computed, written, closed, received, consumer, runNo, base,
                   first, cancelPos, api>>

\* C29 mutant: the worker stops whether the context is done or not.
LoopPollAlwaysStops ==
    /\ pc = "poll"
    /\ Send(newStopEvent(computed, outputStates(hashes).states))
    /\ UNCHANGED <<hasher, states, interval, src, pos, ctxDone, tickPending,
                   hashes, computed, written, closed, received, consumer,
                   runNo, base, first, cancelPos, api>>

\* C35 mutant: a stream hashed in full is reported as done before the
\* context is looked at.
LoopPollEndFirst ==
    /\ pc = "poll"
    /\ IF ~src.endless /\ pos = Len(src.data) /\ src.errAt # pos
       THEN /\ Send(newOKEvent(computed,
                               [name \in DOMAIN hashes |->
                                  Sum(name, hashes[name])]))
            /\ UNCHANGED written
       ELSE IF ctxDone
       THEN /\ Send(newStopEvent(computed, outputStates(hashes).states))
            /\ UNCHANGED written
       ELSE /\ pc' = "copy"
            /\ written' = 0
            /\ UNCHANGED ch
    /\ UNCHANGED <<hasher, states, interval, src, pos, ctxDone, tickPending,
                   hashes, computed, closed, received, consumer, runNo, base,
                   first, cancelPos, api>>

\* C31 mutant: the error of outputStates is not looked at.
ctxDoneEventUnchecked(hs, n) == newStopEvent(n, outputStates(hs).states)

\* Start, lines 210-217: the event the ctx.Done() branch sends before it
\* returns, the Error event of a failed export or the Stop event with the
\* exported states.
ctxDoneEvent(hs, n) ==
    LET o == outputStates(hs) IN
    IF o.err # NoErr THEN newErrorEvent(o.err)
    ELSE newStopEvent(n, o.states)

\* Start, lines 209-219: poll the context; stop, or enter io.CopyBuffer.
LoopPoll ==
    /\ pc = "poll"
    /\ IF ctxDone
       THEN /\ Send(ctxDoneEvent(hashes, computed))
            /\ UNCHANGED written
       ELSE /\ pc' = "copy"
            /\ written' = 0
            /\ UNCHANGED ch
    /\ UNCHANGED <<hasher, states, interval, src, pos, ctxDone, tickPending,
                   hashes, computed, closed, received, consumer, runNo, base,
                   first, cancelPos, api>>

\* The bytes one Read may return at offset p: at least one, at most the
\* buffer, never past the end of the data or the offset of the read error.
ReadSizes(p) ==
    LET limit == IF src.endless THEN Len(src.data)
                 ELSE IF src.errAt > p THEN src.errAt ELSE Len(src.data)
    IN 1..(IF hasher.bufferSize.gib > 0 THEN limit - p
           ELSE Min(hasher.bufferSize.rem, limit - p))

\* io.CopyBuffer(w, r, buf), one iteration of its loop: read a chunk and
\* write it into every accumulator.  It goes on until end of stream or error.
CopyChunk ==
    /\ pc = "copy"
    /\ src.endless \/ (pos # src.errAt /\ pos < Len(src.data))
    /\ \E k \in ReadSizes(pos) :
          /\ hashes' = MultiWrite(hashes, SubSeq(src.data, pos + 1, pos + k))
          /\ pos' = IF src.endless THEN (pos + k) % Len(src.data) ELSE pos + k
          /\ written' = (written + k) % CounterMod
    /\ UNCHANGED <<hasher, states, interval, src, ctxDone, tickPending, pc,
                   computed, ch, closed, received, consumer, runNo, base,
                   first, cancelPos, api>>

\* C15 mutant: a failed read ends the run like a cancellation.
CopyErrorAsStop ==
    /\ pc = "copy"
    /\ ~src.endless
    /\ pos = src.errAt
    /\ Send(newStopEvent(computed, outputStates(hashes).states))
    /\ UNCHANGED <<hasher, states, interval, src, pos, ctxDone, tickPending,
                   hashes, computed, written, closed, received, consumer,
                   runNo, base, first, cancelPos, api>>

\* io.CopyBuffer returns an error (lines 220-223): the read failed.
CopyError ==
    /\ pc = "copy"
    /\ ~src.endless
    /\ pos = src.errAt
    /\ Send(newErrorEvent(ErrRead))
    /\ UNCHANGED <<hasher, states, interval, src, pos, ctxDone, tickPending,
                   hashes, computed, written, closed, received, consumer,
                   runNo, base, first, cancelPos, api>>

\* C16 mutant: the checksums are taken from fresh accumulators.
ChecksumsOfFresh(hs) == [name \in DOMAIN hs |-> Sum(name, NewHash(name))]

\* C38 mutant: the checksum of one accumulator only is reported.
ChecksumsOfOne(hs) ==
    LET one == CHOOSE name \in DOMAIN hs : TRUE IN
    [name \in {one} |-> Sum(name, hs[name])]

\* The checksums of the OK event (lines 226-230).
ChecksumsOf(hs) == [name \in DOMAIN hs |-> Sum(name, hs[name])]

\* C5 mutant: the copied bytes are not added to computed.
AddComputedDropped(c, n) == c

\* computed += n (line 236), in the width of the modelled counters.
AddComputed(c, n) == (c + n) % CounterMod

\* io.CopyBuffer returns at end of stream (lines 225-236): OK when nothing
\* was copied, otherwise add the copied bytes to computed and loop.
CopyReturn ==
    /\ pc = "copy"
    /\ ~src.endless
    /\ pos # src.errAt
    /\ pos = Len(src.data)
    /\ IF written = 0
       THEN /\ Send(newOKEvent(computed, ChecksumsOf(hashes)))
            /\ UNCHANGED computed
       ELSE /\ computed' = AddComputed(computed, written)
            /\ pc' = "ticker"
            /\ UNCHANGED ch
    /\ UNCHANGED <<hasher, states, interval, src, pos, ctxDone, tickPending,
                   hashes, written, closed, received, consumer, runNo, base,
                   first, cancelPos, api>>

\* The deferred close(ch) (lines 170-172) after the terminal send.
Close ==
    /\ pc = "return"
    /\ closed' = TRUE
    /\ pc' = "done"
    /\ UNCHANGED <<hasher, states, interval, src, pos, ctxDone, tickPending,
                   hashes, computed, written, ch, received, consumer, runNo,
                   base, first, cancelPos, api>>

\* C1 mutant: the worker goes on with its loop after every send.
AfterSendNoReturn(ev) == "poll"

\* After a send the worker returns (terminal events) or goes on to the poll
\* (the ticker's report).
AfterSend(ev) == IF IsTerminal(ev) THEN "return" ELSE "poll"

\* C28 mutant: the consumer gets the event twice.
ReceiveTwice ==
    /\ pc = "send"
    /\ consumer = "ranging"
    /\ received' = Append(Append(received, ch), ch)
    /\ ch' = NoEvent
    /\ pc' = AfterSend(ch)
    /\ UNCHANGED <<hasher, states, interval, src, pos, ctxDone, tickPending,
                   hashes, computed, written, closed, consumer, runNo, base,
                   first, cancelPos, api>>

\* The consumer receives the event the worker is sending; the send returns.
Receive ==
    /\ pc = "send"
    /\ consumer = "ranging"
    /\ received' = Append(received, ch)
    /\ ch' = NoEvent
    /\ pc' = AfterSend(ch)
    /\ UNCHANGED <<hasher, states, interval, src, pos, ctxDone, tickPending,
                   hashes, computed, written, closed, consumer, runNo, base,
                   first, cancelPos, api>>

\* The consumer's range loop ends on the closed channel.
ConsumerExit ==
    /\ closed
    /\ consumer = "ranging"
    /\ consumer' = "exited"
    /\ UNCHANGED <<hasher, states, interval, src, pos, ctxDone, tickPending,
                   pc, hashes, computed, written, ch, closed, received, runNo,
                   base, first, cancelPos, api>>

\* The consumer stops receiving before the channel is closed.
ConsumerQuit ==
    /\ ~closed
    /\ consumer = "ranging"
    /\ consumer' = "gone"
    /\ UNCHANGED <<hasher, states, interval, src, pos, ctxDone, tickPending,
                   pc, hashes, computed, written, ch, closed, received, runNo,
                   base, first, cancelPos, api>>

\* The bytes of the source hashed so far in the current run.
Consumed == IF src.endless THEN written ELSE pos - base

\* C37 mutant: a send gives way to the cancellation of the context.
CancelAbandonsSend ==
    /\ ~ctxDone
    /\ ~closed
    /\ ctxDone' = TRUE
    /\ cancelPos' = Consumed
    /\ IF pc = "send"
       THEN ch' = NoEvent /\ pc' = "return"
       ELSE UNCHANGED <<ch, pc>>
    /\ UNCHANGED <<hasher, states, interval, src, pos, tickPending, hashes,
                   computed, written, closed, received, consumer, runNo,
                   base, first, api>>

\* The caller cancels the context, or its deadline expires.
Cancel ==
    /\ ~ctxDone
    /\ ~closed
    /\ ctxDone' = TRUE
    /\ cancelPos' = Consumed
    /\ UNCHANGED <<hasher, states, interval, src, pos, tickPending, pc, hashes,
                   computed, written, ch, closed, received, consumer, runNo,
                   base, first, api>>

\* The ticker fires (its channel holds one tick).
Tick ==
    /\ HasTicker
    /\ pc \in {"ticker", "poll", "copy", "send"}
    /\ ~tickPending
    /\ tickPending' = TRUE
    /\ UNCHANGED <<hasher, states, interval, src, pos, ctxDone, pc, hashes,
                   computed, written, ch, closed, received, consumer, runNo,
                   base, first, cancelPos, api>>

\* The last event the consumer received.
LastEvent == IF received = <<>> THEN NoEvent ELSE received[Len(received)]

\* The caller resumes a stopped run: it calls Start again with the states of
\* the Stop event, a fresh context and the source positioned at the offset
\* the Stop events reported so far.
Resume ==
    /\ consumer = "exited"
    /\ LastEvent.type = "Stop"
    /\ runNo < MaxRuns
    /\ runNo' = runNo + 1
    /\ states' = MkMap(LastEvent.data)
    /\ base' = base + LastEvent.computed
    /\ pos' = base + LastEvent.computed
    /\ ctxDone' = FALSE
    /\ tickPending' = FALSE
    /\ pc' = "setup"
    /\ hashes' = EmptyMap
    /\ computed' = 0
    /\ written' = 0
    /\ ch' = NoEvent
    /\ closed' = FALSE
    /\ received' = <<>>
    /\ consumer' = "ranging"
    /\ cancelPos' = -1
    /\ UNCHANGED <<hasher, interval, src, first, api>>

Worker == Setup \/ LoopTicker \/ LoopPoll \/ CopyChunk \/ CopyError
          \/ CopyReturn \/ Close

Next ==
    \/ Setup
    \/ LoopTicker
    \/ LoopPoll
    \/ CopyChunk
    \/ CopyError
    \/ CopyReturn
    \/ Close
    \/ Receive
    \/ ConsumerExit
    \/ ConsumerQuit
    \/ Cancel
    \/ Tick
    \/ Resume

Spec == Init /\ [][Next]_vars

\* The worker goroutine is scheduled, and a consumer that is ranging over the
\* channel receives what is sent and sees the close.
LiveSpec ==
    /\ Init
    /\ [][Next]_vars
    /\ WF_vars(Worker)
    /\ WF_vars(Receive)
    /\ WF_vars(ConsumerExit)

\* ------------------------------------------------------- engine: claims
\* The events the worker has sent or is blocked sending, in order.
Sent == IF ch.type = "None" THEN received ELSE Append(received, ch)

\* What a fresh accumulator of each name holds after writing bytes.
HashesAfter(names, bytes) ==
    [name \in names |-> WriteBytes(name, NewHash(name), bytes)]

\* The accumulators a run starts from: fresh, or restored from its states.
StartHashes ==
    [name \in DOMAIN hashes |->
        IF states.isNil THEN NewHash(name)
        ELSE [h |-> states.m[name][2], n |-> states.m[name][3]]]

\* C1: at most one terminal event (OK, Stop or Error) is sent in a run; it
\* is the last event sent, nothing is sent after it has been received, and
\* the channel is closed only after it.
C1_OneTerminalEventLast ==
    /\ \A i \in 1..Len(Sent) : IsTerminal(Sent[i]) => i = Len(Sent)
    /\ IsTerminal(LastEvent) => (ch = NoEvent /\ pc \in {"return", "done"})
    /\ closed => (IsTerminal(LastEvent) /\ pc = "done")

\* C1 witness: the channel is closed after a report and a terminal Stop.
C1_Witness ==
    /\ closed
    /\ Len(received) >= 2
    /\ received[1].type = "Computed"
    /\ LastEvent.type = "Stop"

\* C2: if the consumer keeps receiving and the source is finite or the
\* context is eventually canceled, every run eventually closes the channel
\* after a terminal event.
C2_EveryRunTerminates ==
    ([](consumer # "gone") /\ (src.endless => <>ctxDone))
        => [](pc = "setup" => <>(closed /\ IsTerminal(LastEvent)))

\* C4: when a chain of runs, the first one fresh at offset 0 and each later
\* one resumed from the Stop of the one before, ends in OK, the checksums
\* are those of the whole source hashed in one run and the computed counts
\* of the runs sum to the length of the source.
C4_ResumedRunsEqualUnbroken ==
    \A i \in 1..Len(Sent) :
        (Sent[i].type = "OK" /\ first.isNil) =>
            /\ Sent[i].data =
                 ChecksumsOf(HashesAfter(DOMAIN Sent[i].data, src.data))
            /\ base + Sent[i].computed = Len(src.data)

\* C4 witness: the third run of a chain ends in OK after a Stop that
\* reported bytes.
C4_Witness ==
    /\ runNo = 3
    /\ base > 0
    /\ first.isNil
    /\ LastEvent.type = "OK"

\* C5: when the poll finds the context canceled the worker sends a Stop
\* event, the only one of the run, and its computed is the number of bytes
\* of the source written into the accumulators in this run.
C5_StopCountsWrittenBytes ==
    [][(pc = "poll" /\ ctxDone /\ pc' # "poll") =>
          /\ ch'.type = "Stop"
          /\ ch'.computed = Consumed
          /\ \A i \in 1..Len(received) : received[i].type # "Stop"]_vars

\* C5 witness: the context was canceled in the middle of the stream and the
\* run ended in a Stop that counts the chunks hashed since.
C5_Witness ==
    /\ LastEvent.type = "Stop"
    /\ cancelPos > 0
    /\ cancelPos < LastEvent.computed
    /\ LastEvent.computed = Consumed

\* C6: the states of every Stop event are the snapshots of accumulators that
\* consumed the imported prefix and then exactly the first computed bytes
\* read from the source in this run, which are all the bytes read.
C6_StopStatesMatchComputed ==
    \A i \in 1..Len(Sent) :
        Sent[i].type = "Stop" =>
            /\ Sent[i].computed = Consumed
            /\ DOMAIN Sent[i].data = DOMAIN hashes
            /\ \A name \in DOMAIN hashes :
                 Sent[i].data[name] =
                   MarshalBinary(name,
                     WriteBytes(name, StartHashes[name],
                       SubSeq(src.data, base + 1, base + Sent[i].computed)))

\* C6 witness: a run resumed from saved states stops after hashing bytes.
C6_Witness ==
    /\ LastEvent.type = "Stop"
    /\ LastEvent.computed > 0
    /\ ~states.isNil
    /\ \E name \in DOMAIN hashes : StartHashes[name].n > 0

\* The errors of a wrong configuration.
ConfigErrors ==
    {ErrNoHashFunc, ErrUnSupportedHashFunc, ErrUnmatchedHashFuncsAndStates,
     ErrUnSupportedHashAlg, ErrNoStates}

\* C7: a configuration error (unsupported algorithm, no algorithm, no state,
\* algorithm/state mismatch) never appears as an Error event on the channel.
C7_NoConfigErrorEvent ==
    \A i \in 1..Len(Sent) :
        Sent[i].type = "Error" => Sent[i].err \notin ConfigErrors

\* The algorithm names the Hasher was created with.
Requested == Range(hasher.hashFuncs.elems)

\* The run was started with states for other algorithms than the requested
\* ones, all of them supported.
Mismatched ==
    /\ getHashesAndWriter(hasher.hashFuncs).ok
    /\ ~states.isNil
    /\ DOMAIN states.m # Requested

\* C11: a run started with states whose key set differs from the set of
\* requested algorithms (a key missing, a key too many, another key) fails
\* with the unmatched-states error: it is the only event, no accumulator has
\* imported a state and no byte of the source has been read or hashed.
C11_MismatchedStatesRefused ==
    (Mismatched /\ pc # "setup") =>
        /\ Sent = <<newErrorEvent(ErrUnmatchedHashFuncsAndStates)>>
        /\ hashes = [name \in Requested |-> NewHash(name)]
        /\ pos = 0
        /\ computed = 0

\* C11 witness: states for one other algorithm, the same number of keys as
\* requested, were refused and the channel is closed.
C11_Witness ==
    /\ Mismatched
    /\ Cardinality(DOMAIN states.m) = Cardinality(Requested)
    /\ closed
    /\ LastEvent.err = ErrUnmatchedHashFuncsAndStates

\* C15: when a read of the source fails the worker sends an Error event
\* with that error and reads no more; the Error event is the last event of
\* the run, the run has no Stop and no OK event, the event carries no
\* state, and the worker only returns and closes the channel after it.
C15_ReadErrorEndsRun ==
    /\ [](\A i \in 1..Len(Sent) :
            (Sent[i].type = "Error" /\ Sent[i].err = ErrRead) =>
                /\ i = Len(Sent)
                /\ \A j \in 1..Len(Sent) : Sent[j].type \notin {"Stop", "OK"}
                /\ Sent[i].data = EmptyMap
                /\ pos = src.errAt
                /\ pc \in {"send", "return", "done"})
    /\ [][(pc = "copy" /\ ~src.endless /\ pos = src.errAt /\ pc' # "copy") =>
              /\ ch' = newErrorEvent(ErrRead)
              /\ pos' = pos
              /\ hashes' = hashes]_vars

\* C15 witness: a resumed run read bytes, then a read failed, and the
\* channel is closed after the Error event.
C15_Witness ==
    /\ closed
    /\ LastEvent = newErrorEvent(ErrRead)
    /\ runNo = 2
    /\ pos > base
    /\ pos = src.errAt

\* C16: an OK event is sent only when the source is at its end; its
\* computed is the number of bytes read from the source in this run, without
\* the bytes behind the imported states, and its checksums are, for every
\* accumulator of the run, the digest of the imported prefix followed by the
\* bytes read.
C16_OKAfterEndOfStream ==
    \A i \in 1..Len(Sent) :
        Sent[i].type = "OK" =>
            /\ ~src.endless
            /\ pos = Len(src.data)
            /\ Sent[i].computed = Len(src.data) - base
            /\ DOMAIN Sent[i].data = DOMAIN hashes
            /\ \A name \in DOMAIN hashes :
                 Sent[i].data[name] =
                   Sum(name, WriteBytes(name, StartHashes[name],
                               SubSeq(src.data, base + 1, Len(src.data))))

\* C16 witness: a run started with the states of accumulators that had
\* consumed bytes read more bytes and ended in OK.
C16_Witness ==
    /\ LastEvent.type = "OK"
    /\ LastEvent.computed > 0
    /\ ~states.isNil
    /\ \E name \in DOMAIN hashes : StartHashes[name].n > 0

\* C25: between two polls of the context the worker reads at most one chunk
\* of at most bufferSize bytes, and a run canceled while it was running has
\* hashed at most bufferSize bytes more when it sends Stop.
C25_OneChunkBetweenPolls ==
    hasher.bufferSize.gib = 0 =>
        /\ pc = "copy" => written <= hasher.bufferSize.rem
        /\ \A i \in 1..Len(Sent) :
             (Sent[i].type = "Stop" /\ cancelPos >= 0 /\ ~src.endless) =>
                 (pos - base) - cancelPos <= hasher.bufferSize.rem

\* C26: the counter of a run starts at 0 and never decreases; the values
\* of the Computed events of a run never decrease, each is the number of
\* bytes written into the accumulators when it was made, and none exceeds
\* the computed of the run's Stop or OK event.
C26_ComputedMonotonic ==
    /\ [](/\ computed >= 0
          /\ \A i \in 1..Len(Sent) : \A j \in i..Len(Sent) :
                Sent[i].type = "Computed"
                  /\ Sent[j].type \in {"Computed", "Stop", "OK"}
                => Sent[i].computed <= Sent[j].computed)
    /\ [][/\ runNo' = runNo => computed' >= computed
          /\ (pc = "setup" /\ pc' = "ticker") => computed' = 0
          /\ (ch' # ch /\ ch'.type = "Computed") => ch'.computed = Consumed
         ]_vars

\* C26 witness: a Computed event with a positive value was followed by the
\* OK event of the run.
C26_Witness ==
    /\ LastEvent.type = "OK"
    /\ \E i \in 1..Len(received) :
          received[i].type = "Computed" /\ received[i].computed > 0

\* C27: at every turn of the worker's loop, and in every Computed, Stop or
\* OK event being sent, each accumulator holds what it started from followed
\* by the same bytes, the first computed bytes the run read; computed is the
\* number of bytes hashed in the run, and it changes only when every
\* accumulator has consumed the bytes it adds.
C27_Lockstep ==
    /\ []((\/ pc \in {"ticker", "poll"}
           \/ pc = "send" /\ ch.type \in {"Computed", "Stop", "OK"}) =>
            /\ computed = Consumed
            /\ \A name \in DOMAIN hashes :
                 hashes[name] =
                   WriteBytes(name, StartHashes[name],
                              SubSeq(src.data, base + 1, base + computed)))
    /\ [][(computed' # computed /\ runNo' = runNo) =>
            /\ hashes' = hashes
            /\ computed' = pos - base
            /\ \A name \in DOMAIN hashes :
                 hashes[name] =
                   WriteBytes(name, StartHashes[name],
                              SubSeq(src.data, base + 1, pos))]_vars

\* C27 witness: two accumulators are at the poll after a copy of more than
\* one byte.
C27_Witness ==
    /\ pc = "poll"
    /\ computed > 1
    /\ Cardinality(DOMAIN hashes) = 2

\* C28: an event being sent leaves the channel only by being received, the
\* consumer's sequence grows only by the event being sent, once, and while
\* an event is being sent the worker does nothing else: it hashes nothing,
\* makes no other event and does not close the channel.
C28_UnbufferedHandOff ==
    /\ [](ch # NoEvent <=> pc = "send")
    /\ [][/\ (ch # NoEvent /\ ch' # ch) =>
                (ch' = NoEvent /\ received' = Append(received, ch))
          /\ (received' # received /\ runNo' = runNo) =>
                (ch # NoEvent /\ ch' = NoEvent
                 /\ received' = Append(received, ch))
          /\ (ch # NoEvent /\ ch' = ch) =>
                (pc' = pc /\ hashes' = hashes /\ computed' = computed
                 /\ pos' = pos /\ closed' = closed)
         ]_vars

\* C28 witness: two events were received and a third is being sent.
C28_Witness ==
    /\ Len(received) = 2
    /\ ch # NoEvent
    /\ received[1] # received[2]

\* C29: a Stop event is sent only when the context is done, and a run whose
\* context was never done ends with OK or Error.
C29_StopOnlyAfterCancel ==
    /\ \A i \in 1..Len(Sent) : Sent[i].type = "Stop" => ctxDone
    /\ (closed /\ ~ctxDone) => LastEvent.type \in {"OK", "Error"}

\* C29 witness: a resumed run whose context was never done has ended with
\* OK.
C29_Witness ==
    /\ closed
    /\ ~ctxDone
    /\ runNo = 2
    /\ LastEvent.type = "OK"
    /\ LastEvent.computed > 0

\* C32: a run started with an interval of zero or less sends no Computed
\* event, and when its channel is closed exactly one event, a terminal one,
\* was sent; a run started with a positive interval sends its Computed
\* events, if any, before its terminal event.
C32_ComputedOnlyWithInterval ==
    /\ interval <= 0 =>
          /\ \A i \in 1..Len(Sent) : Sent[i].type # "Computed"
          /\ Len(Sent) <= 1
          /\ closed => (Len(received) = 1 /\ IsTerminal(received[1]))
    /\ \A i \in 1..Len(Sent) : \A j \in 1..Len(Sent) :
          (Sent[i].type = "Computed" /\ IsTerminal(Sent[j])) => i < j

\* C32 witness: a run without interval has hashed bytes over two turns of
\* its loop and closed its channel after its only event.
C32_Witness ==
    /\ interval <= 0
    /\ closed
    /\ Len(received) = 1
    /\ received[1].type = "OK"
    /\ received[1].computed > 0

\* C35: a worker that finds the context done at its poll ends the run with
\* Stop (or with the Error of a failed export), whatever it has hashed; a
\* run that is stopped after it hashed its stream in full reports the
\* length of what it hashed and has no OK event.
C35_DoneAtPollIsStop ==
    /\ [](\A i \in 1..Len(Sent) :
            (Sent[i].type = "Stop" /\ ~src.endless /\ pos = Len(src.data)) =>
                /\ Sent[i].computed = Len(src.data) - base
                /\ \A j \in 1..Len(Sent) : Sent[j].type # "OK")
    /\ [][(pc = "poll" /\ ctxDone /\ pc' # "poll") =>
            /\ ch'.type \in {"Stop", "Error"}
            /\ ch'.type = "Stop" => ch'.computed = computed
            /\ ch'.type = "Error" => ch'.err = ErrNotBinaryMarshaler
            /\ pos' = pos]_vars

\* C35 witness: the context was canceled when the whole stream had been
\* hashed, and the run ended in Stop with the length of the stream.
C35_Witness ==
    /\ closed
    /\ LastEvent.type = "Stop"
    /\ ~src.endless
    /\ Len(src.data) >= 2
    /\ cancelPos = Len(src.data)
    /\ LastEvent.computed = Len(src.data)

\* ------------------------------------------- hasher.go: accumulator sets
\* The bytes of an algorithm name, for Go's string comparison.
NameBytes(name) ==
    CASE name = "MD5" -> <<77, 68, 53>>
      [] name = "CRC-32" -> <<67, 82, 67, 45, 51, 50>>
      [] name = "SHA-1" -> <<83, 72, 65, 45, 49>>
      [] name = "SHA-256" -> <<83, 72, 65, 45, 50, 53, 54>>
      [] name = "SHA-512" -> <<83, 72, 65, 45, 53, 49, 50>>
      [] OTHER -> <<>>

RECURSIVE BytesLess(_, _)
BytesLess(a, b) ==
    IF b = <<>> THEN FALSE
    ELSE IF a = <<>> THEN TRUE
    ELSE IF Head(a) # Head(b) THEN Head(a) < Head(b)
    ELSE BytesLess(Tail(a), Tail(b))

\* algs[i] < algs[j] on strings.
StringLess(a, b) == BytesLess(NameBytes(a), NameBytes(b))

\* SupportedHashAlgs: the keys of the registry, sorted by name.
SupportedHashAlgs ==
    CHOOSE algs \in Orders(hashAlgsToNewFuncs) :
        \A i \in 1..Len(algs), j \in 1..Len(algs) :
            i < j => StringLess(algs[i], algs[j])

RECURSIVE sortInsert(_, _)
\* One step of the sort: x put before the first element it is less than.
sortInsert(sorted, x) ==
    IF sorted = <<>> THEN <<x>>
    ELSE IF StringLess(x, Head(sorted)) THEN <<x>> \o sorted
    ELSE <<Head(sorted)>> \o sortInsert(Tail(sorted), x)

RECURSIVE sortSlice(_)
\* sort.Slice(algs, func(i, j) bool { return algs[i] < algs[j] }).
sortSlice(algs) ==
    IF algs = <<>> THEN <<>>
    ELSE sortInsert(sortSlice(SubSeq(algs, 1, Len(algs) - 1)), algs[Len(algs)])

\* SupportedHashAlgs, with the order in which its range loop visits the
\* registry: the keys are appended in that order and then sorted.
SupportedHashAlgsFrom(order) == sortSlice(order)

\* GetAvailableHashFuncs returns the package's list as it is declared.
GetAvailableHashFuncs == AvailableHashFuncs

\* A nil *Hasher together with an error.
NoHasher(err) ==
    [ok |-> FALSE, needCloseReader |-> FALSE, hashes |-> EmptyMap, err |-> err]

RECURSIVE newHasherLoopSkipping(_, _, _)
\* C8 mutant: an unsupported name is skipped instead of refused.
newHasherLoopSkipping(algs, i, hs) ==
    IF i > Len(algs)
    THEN [ok |-> TRUE, needCloseReader |-> FALSE, hashes |-> hs, err |-> NoErr]
    ELSE IF algs[i] \notin hashAlgsToNewFuncs
    THEN newHasherLoopSkipping(algs, i + 1, hs)
    ELSE newHasherLoopSkipping(algs, i + 1,
           [name \in DOMAIN hs \cup {algs[i]} |->
               IF name = algs[i] THEN NewHash(name) ELSE hs[name]])

RECURSIVE newHasherLoop(_, _, _)
newHasherLoop(algs, i, hs) ==
    IF i > Len(algs)
    THEN [ok |-> TRUE, needCloseReader |-> FALSE, hashes |-> hs, err |-> NoErr]
    ELSE IF algs[i] \notin hashAlgsToNewFuncs
    THEN NoHasher(ErrUnSupportedHashAlg)
    ELSE newHasherLoop(algs, i + 1,
           [name \in DOMAIN hs \cup {algs[i]} |->
               IF name = algs[i] THEN NewHash(name) ELSE hs[name]])

\* C24 mutant: a nil list is taken as it is, a list without names.
newHasherNilAsEmpty(needCloseReader, hashAlgs) ==
    newHasherLoop(hashAlgs.elems, 1, EmptyMap)

\* newHasher(r, needCloseReader, hashAlgs...): a nil list stands for all
\* supported algorithms.
newHasher(needCloseReader, hashAlgs) ==
    newHasherLoop(IF hashAlgs.isNil THEN SupportedHashAlgs ELSE hashAlgs.elems,
                  1, EmptyMap)

\* states[alg] of a Go map: the zero value (a nil blob) for a missing key.
Lookup(m, alg) == IF alg \in DOMAIN m THEN m[alg] ELSE <<>>

\* C3 mutant: the blobs are checked but not imported.
importLoopChecking(h, m, order, i) ==
    IF \E alg \in Range(order) : UnmarshalErr(alg, Lookup(m, alg)) # NoErr
    THEN NoHasher(ErrInvalidHashStateIdentifier)
    ELSE h

RECURSIVE importLoopPartial(_, _, _, _)
\* C12 mutant: a blob that fails to import is skipped and the set returned.
importLoopPartial(h, m, order, i) ==
    IF i > Len(order) THEN h
    ELSE LET alg == order[i]
             e == UnmarshalErr(alg, Lookup(m, alg))
         IN IF e # NoErr THEN importLoopPartial(h, m, order, i + 1)
            ELSE importLoopPartial(
                   [h EXCEPT !.hashes[alg] =
                       UnmarshalBinary(alg, @, Lookup(m, alg))],
                   m, order, i + 1)

RECURSIVE importLoop(_, _, _, _)
importLoop(h, m, order, i) ==
    IF i > Len(order) THEN h
    ELSE LET alg == order[i]
             e == UnmarshalErr(alg, Lookup(m, alg))
         IN IF e # NoErr THEN NoHasher(e)
            ELSE importLoop(
                   [h EXCEPT !.hashes[alg] =
                       UnmarshalBinary(alg, @, Lookup(m, alg))],
                   m, order, i + 1)

\* newHasherWithStates(r, needCloseReader, states): keyOrder is the order of
\* the range over states, hashOrder the order of the range over the
\* accumulators built.
newHasherWithStates(needCloseReader, sts, keyOrder, hashOrder) ==
    IF sts.isNil THEN NoHasher(ErrNoStates)
    ELSE LET algs == IF keyOrder = <<>> THEN NilSlice ELSE MkSlice(keyOrder)
             h == newHasher(needCloseReader, algs)
         IN IF ~h.ok THEN h
            ELSE importLoop(h, sts.m, hashOrder, 1)

\* New(r, hashAlgs...) of hasher.go.
HasherNew(hashAlgs) == newHasher(FALSE, hashAlgs)

\* NewWithStates(r, states).
NewWithStates(sts, keyOrder, hashOrder) ==
    newHasherWithStates(FALSE, sts, keyOrder, hashOrder)

\* FromStrings(strs, hashAlgs...): the reader is a multi-reader over strs.
FromStrings(hashAlgs) == newHasher(FALSE, hashAlgs)

\* C21 mutant: the reader gives the last string only.
MultiReaderLast(strs) == IF strs = <<>> THEN <<>> ELSE strs[Len(strs)]

RECURSIVE MultiReader(_)
\* io.MultiReader over one strings.Reader for each string: the bytes of the
\* strings, one string after the other.
MultiReader(strs) ==
    IF strs = <<>> THEN <<>> ELSE Head(strs) \o MultiReader(Tail(strs))

\* FromUrl(url, hashAlgs...), for a URL that answers the request with 200.
FromUrl(hashAlgs) == newHasher(TRUE, hashAlgs)

\* FromFile(file, hashAlgs...), for a file that can be opened.
FromFile(hashAlgs) == newHasher(TRUE, hashAlgs)

\* FromUrlWithStates(url, computed, states), for a URL that supports ranges
\* and answers the request with 206.
FromUrlWithStates(c, sts, keyOrder, hashOrder) ==
    IF sts.isNil THEN NoHasher(ErrNoStates)
    ELSE IF c <= 0 THEN NoHasher(ErrIncorrectComputedSize)
    ELSE newHasherWithStates(TRUE, sts, keyOrder, hashOrder)

\* FromFileWithStates(file, computed, states), for a file that can be opened
\* and positioned at computed.
FromFileWithStates(c, sts, keyOrder, hashOrder) ==
    IF sts.isNil THEN NoHasher(ErrNoStates)
    ELSE IF c <= 0 THEN NoHasher(ErrIncorrectComputedSize)
    ELSE newHasherWithStates(TRUE, sts, keyOrder, hashOrder)

\* Hasher.Close: the number of calls of Close it makes on the reader, which
\* is an io.ReadCloser.
HasherClose(h) == IF h.needCloseReader THEN 1 ELSE 0

\* The constructors that create a set, and for each the constructor that
\* continues its work from saved states.
Constructors == {"New", "FromStrings", "FromFile", "FromUrl"}
WithStatesOf(ctor) ==
    CASE ctor = "FromFile" -> "FromFileWithStates"
      [] ctor = "FromUrl" -> "FromUrlWithStates"
      [] OTHER -> "NewWithStates"

\* Hasher.States: the snapshot of every accumulator.
States(h) ==
    [states |-> [alg \in DOMAIN h.hashes |-> MarshalBinary(alg, h.hashes[alg])],
     err |-> NoErr]

\* Hasher.Checksums: the digest of every accumulator.
Checksums(h) == [alg \in DOMAIN h.hashes |-> Sum(alg, h.hashes[alg])]

\* Strings are sequences of characters.
HexDigits ==
    <<"0", "1", "2", "3", "4", "5", "6", "7",
      "8", "9", "a", "b", "c", "d", "e", "f">>

RECURSIVE EncodeToString(_)
\* hex.EncodeToString: two lower-case digits for each byte.
EncodeToString(bytes) ==
    IF bytes = <<>> THEN <<>>
    ELSE <<HexDigits[(Head(bytes) \div 16) + 1],
           HexDigits[(Head(bytes) % 16) + 1]>> \o EncodeToString(Tail(bytes))

LowerOf(c) ==
    CASE c = "A" -> "a" [] c = "B" -> "b" [] c = "C" -> "c"
      [] c = "D" -> "d" [] c = "E" -> "e" [] c = "F" -> "f"
      [] OTHER -> c

UpperOf(c) ==
    CASE c = "a" -> "A" [] c = "b" -> "B" [] c = "c" -> "C"
      [] c = "d" -> "D" [] c = "e" -> "E" [] c = "f" -> "F"
      [] OTHER -> c

\* strings.ToLower and strings.ToUpper, on the characters of a checksum.
ToLower(str) == [i \in 1..Len(str) |-> LowerOf(str[i])]
ToUpper(str) == [i \in 1..Len(str) |-> UpperOf(str[i])]

\* Hasher.ChecksumStrings: the digest of every accumulator, in hex.
ChecksumStrings(h) ==
    [alg \in DOMAIN h.hashes |-> EncodeToString(Sum(alg, h.hashes[alg]))]

RECURSIVE MatchMap(_, _, _, _)
\* The map of Match, from checksum string to algorithm, filled in the order
\* in which the range loop visits h.hashes.
MatchMap(h, order, i, m) ==
    IF i > Len(order) THEN m
    ELSE LET alg == order[i]
             key == EncodeToString(Sum(alg, h.hashes[alg]))
         IN MatchMap(h, order, i + 1,
                     [x \in DOMAIN m \cup {key} |->
                        IF x = key THEN alg ELSE m[x]])

\* C23 mutant: the checksum is looked up as it was given.
MatchExactCase(h, checksum, order) ==
    LET m == MatchMap(h, order, 1, EmptyMap) IN
    IF checksum \in DOMAIN m
    THEN [matched |-> TRUE, alg |-> m[checksum]]
    ELSE [matched |-> FALSE, alg |-> ""]

\* Hasher.Match(checksum).
Match(h, checksum, order) ==
    LET m == MatchMap(h, order, 1, EmptyMap)
        lower == ToLower(checksum)
    IN IF lower \in DOMAIN m
       THEN [matched |-> TRUE, alg |-> m[lower]]
       ELSE [matched |-> FALSE, alg |-> ""]

\* The errors of a context that is done: ctx.Err().
CtxErrors == {ErrCanceled, ErrDeadlineExceeded}

RECURSIVE ComputeStopAsOK(_, _)
\* C22 mutant: an interrupted run is answered like a finished one.
ComputeStopAsOK(h, evs) ==
    IF evs = <<>>
    THEN [checksums |-> NilMap, written |-> 0, err |-> ErrNoChecksums]
    ELSE LET ev == Head(evs) IN
         CASE ev.type = "Error" ->
                [checksums |-> NilMap, written |-> 0, err |-> ev.err]
           [] ev.type \in {"Stop", "OK"} ->
                [checksums |-> MkMap([alg \in DOMAIN h.hashes |->
                                        Sum(alg, h.hashes[alg])]),
                 written |-> ev.written, err |-> NoErr]
           [] OTHER -> ComputeStopAsOK(h, Tail(evs))

RECURSIVE Compute(_, _)
\* Hasher.Compute: range over the channel of Start; the first Error, Stop or
\* OK event decides the result, a channel closed without one gives
\* ErrNoChecksums.  evs are the events of the channel, in order.
Compute(h, evs) ==
    IF evs = <<>>
    THEN [checksums |-> NilMap, written |-> 0, err |-> ErrNoChecksums]
    ELSE LET ev == Head(evs) IN
         CASE ev.type = "Error" ->
                [checksums |-> NilMap, written |-> 0, err |-> ev.err]
           [] ev.type = "Stop" ->
                [checksums |-> NilMap, written |-> 0, err |-> ev.err]
           [] ev.type = "OK" ->
                [checksums |-> MkMap(Checksums(h)), written |-> ev.written,
                 err |-> NoErr]
           [] OTHER -> Compute(h, Tail(evs))

\* --------------------------------------- hasher.go: the scenarios checked
\* The accumulators a restore from sts builds before it imports the blobs.
BuiltFrom(sts, keyOrder) ==
    newHasher(FALSE, IF keyOrder = <<>> THEN NilSlice ELSE MkSlice(keyOrder))

NoResult == [ok |-> FALSE, hashes |-> EmptyMap, err |-> NoErr]
NoComputeResult == [checksums |-> NilMap, written |-> 0, err |-> NoErr]
NoMatch == [input |-> <<>>, matched |-> FALSE, alg |-> ""]

\* The events of the channel of Hasher.Start.
EventWritten(n) == [type |-> "Written", err |-> NoErr, written |-> n]
EventError(err) == [type |-> "Error", err |-> err, written |-> 0]
EventStop(err, n) == [type |-> "Stop", err |-> err, written |-> n]
EventOK(n) == [type |-> "OK", err |-> NoErr, written |-> n]

\* Event sequences handed to Compute as they are (mode "fold"): all the
\* sequences of at most two of these events.
FoldEvents ==
    {EventWritten(1), EventError(ErrRead), EventStop(ErrCanceled, 1),
     EventOK(1)}
EventSeqInputs == UNION {[1..l -> FoldEvents] : l \in 0..2}

\* Buffer sizes given to New (mode "clamp"): negative ones, zero, one, the
\* default, the sizes around MaxBufSize and the largest ones the checker's
\* integers can hold.
ClampInputs ==
    {Size(q, r) : q \in {-2147483647, -1, 0, 3, 4, 2147483647},
                  r \in {0, 1, 32 * 1024, GiB - 1}}

\* The strings given to FromStrings: d in one string, or cut in two at k.
StrsOf(d, k) ==
    IF k = 0 THEN <<d>> ELSE <<SubSeq(d, 1, k), SubSeq(d, k + 1, Len(d))>>

NoPeek == [kind |-> "", at |-> "", value |-> EmptyMap]

\* The scenario before its first call.
ApiStart(mode, algs, st, d, k, ctor, evs, b) ==
    [pc |-> "start", mode |-> mode, algs |-> algs, st |-> st,
     data |-> IF mode = "compute" /\ ctor = "FromStrings"
              THEN MultiReader(StrsOf(d, k)) ELSE d,
     k |-> k, g |-> NoResult,
     h |-> NoHasher(NoErr), nwritten |-> 0, saved |-> NilMap,
     sums |-> EmptyMap, listings |-> <<>>, available |-> <<>>,
     ctor |-> ctor, by |-> "", closes |-> 0,
     stoppedSet |-> FALSE,
     strs |-> IF mode = "compute" /\ ctor = "FromStrings"
              THEN StrsOf(d, k) ELSE <<>>,
     evs |-> evs, canceled |-> FALSE,
     res |-> NoComputeResult, match |-> NoMatch,
     b |-> b, engine |-> New(NilSlice, Size(0, 0)),
     again |-> Size(0, 0),
     peeks |-> 0, peek |-> NoPeek,
     xh |-> EmptyMap, sent |-> NoEvent]

\* A caller creates an accumulator set for algs, writes the first k bytes of
\* data, exports the states, restores a new set from them, writes the rest
\* and takes the checksums (mode "resume"); or it restores a set from the
\* states st it was given (mode "restore"); or it lists the supported
\* algorithms (mode "list"); or it creates a set over a reader, from strings
\* or from a reader that may fail, and calls Compute (mode "compute"); or
\* Compute is applied to a given sequence of events (mode "fold"); or it
\* builds a Hasher of the engine with a buffer size b (mode "clamp"); or it
\* goes through the steps of mode "resume" and calls Checksums,
\* ChecksumStrings, Match and States between the runs and at the end (mode
\* "peek"); or the ctx.Done() branch of the engine is applied to a map of
\* one, two or five accumulators that have hashed data, among them possibly
\* one of another implementation of hash.Hash (mode "export").
InitAPI ==
    /\ InitRun(NilSlice, Size(0, 0), NilMap, 0,
               [data |-> <<>>, endless |-> FALSE, errAt |-> -1])
    /\ \/ \E algs \in HashFuncsInputs, ctor \in Constructors,
             d \in UNION {[1..l -> Byte] : l \in 0..MaxLen}, k \in 0..MaxLen :
             /\ k <= Len(d)
             /\ algs.isNil => d = <<>>
             /\ api = ApiStart("resume", algs, NilMap, d, k, ctor, <<>>,
                               Size(0, 0))
       \/ \E st \in StatesInputs :
             api = ApiStart("restore", NilSlice, st, <<>>, 0, "New", <<>>,
                            Size(0, 0))
       \/ api = ApiStart("list", NilSlice, NilMap, <<>>, 0, "New", <<>>,
                         Size(0, 0))
       \/ \E algs \in HashFuncsInputs, ctor \in {"New", "FromStrings"},
             d \in UNION {[1..l -> Byte] : l \in 0..MaxLen}, k \in 0..MaxLen :
             /\ k <= Len(d)
             /\ algs.isNil => d = <<>>
             /\ ctor = "New" => k = 0
             /\ api = ApiStart("compute", algs, NilMap, d, k, ctor, <<>>,
                               Size(0, 0))
       \/ \E evs \in EventSeqInputs :
             api = ApiStart("fold", MkSlice(<<"MD5">>), NilMap, <<>>, 0, "New",
                            evs, Size(0, 0))
       \/ \E b \in ClampInputs :
             api = ApiStart("clamp", NilSlice, NilMap, <<>>, 0, "New", <<>>, b)
       \/ \E d \in UNION {[1..l -> Byte] : l \in 0..MaxLen}, k \in 0..MaxLen :
             /\ k <= Len(d)
             /\ api = ApiStart("peek", MkSlice(<<"CRC-32", "MD5">>), NilMap, d,
                               k, "New", <<>>, Size(0, 0))
       \/ \E names \in SUBSET (hashAlgsToNewFuncs \cup {ForeignHash}),
             d \in UNION {[1..l -> Byte] : l \in 0..MaxLen} :
             /\ Cardinality(names) \in {1, 2, 5}
             /\ api = [ApiStart("export", NilSlice, NilMap, d, 0, "New", <<>>,
                                Size(0, 0))
                         EXCEPT !.xh = HashesAfter(names, d)]

\* getHashesAndWriter applied to the algorithm list.
ApiGetHashesAndWriter ==
    /\ api.pc = "start"
    /\ api.mode = "resume"
    /\ api' = [api EXCEPT !.pc = "new", !.g = getHashesAndWriter(api.algs)]
    /\ UNCHANGED engineVars

\* New(r, hashAlgs...), FromStrings, FromFile or FromUrl.
ApiNew ==
    /\ \/ api.pc = "new"
       \/ api.pc = "start" /\ api.mode \in {"compute", "fold", "peek"}
    /\ LET h == CASE api.ctor = "New" -> HasherNew(api.algs)
                  [] api.ctor = "FromStrings" -> FromStrings(api.algs)
                  [] api.ctor = "FromFile" -> FromFile(api.algs)
                  [] api.ctor = "FromUrl" -> FromUrl(api.algs)
       IN api' = [api EXCEPT !.h = h, !.by = api.ctor,
                             !.pc = IF ~h.ok THEN "failed"
                                    ELSE IF api.mode = "compute" THEN "running"
                                    ELSE IF api.mode = "fold" THEN "closedch"
                                    ELSE "write1"]
    /\ UNCHANGED engineVars

\* The copy started by Hasher.Start writes one chunk into the multi-writer
\* over h.hashes.
ApiWrite ==
    /\ api.pc \in {"write1", "write2"}
    /\ LET target == IF api.pc = "write1" THEN api.k ELSE Len(api.data) IN
       \E c \in 1..(target - api.nwritten) :
          api' = [api EXCEPT
                    !.h.hashes = MultiWrite(@, SubSeq(api.data, api.nwritten + 1,
                                                      api.nwritten + c)),
                    !.nwritten = @ + c]
    /\ UNCHANGED engineVars

\* The run started on the set is interrupted after the first k bytes: the
\* channel of Start delivers EventStop and is closed.
ApiStop ==
    /\ api.pc = "write1"
    /\ api.nwritten = api.k
    /\ api' = [api EXCEPT !.stoppedSet = TRUE, !.pc = "stopped"]
    /\ UNCHANGED engineVars

\* Hasher.Start called again on the Hasher whose run was interrupted: the
\* multi-writer is built over the same h.hashes and the copy goes on.
ApiStartAgain ==
    /\ api.pc = "stopped"
    /\ api' = [api EXCEPT !.pc = "write2"]
    /\ UNCHANGED engineVars

\* Hasher.States after the first k bytes.
ApiStates ==
    /\ api.pc = "stopped"
    /\ api' = [api EXCEPT !.saved = MkMap(States(api.h).states),
                          !.pc = "restore"]
    /\ UNCHANGED engineVars

\* NewWithStates(r, states), from the exported states or from the given
\* ones; for a set created from a file or a URL, FromFileWithStates or
\* FromUrlWithStates with the number of bytes written so far.
ApiNewWithStates ==
    /\ \/ api.pc = "restore"
       \/ api.pc = "start" /\ api.mode = "restore"
    /\ LET sts == IF api.mode \in {"resume", "peek"} THEN api.saved
                  ELSE api.st
           via == WithStatesOf(api.ctor)
       IN
       \E keyOrder \in Orders(DOMAIN sts.m) :
       \E hashOrder \in Orders(DOMAIN BuiltFrom(sts, keyOrder).hashes) :
          LET h == CASE via = "NewWithStates" ->
                          NewWithStates(sts, keyOrder, hashOrder)
                     [] via = "FromFileWithStates" ->
                          FromFileWithStates(api.nwritten, sts, keyOrder,
                                             hashOrder)
                     [] via = "FromUrlWithStates" ->
                          FromUrlWithStates(api.nwritten, sts, keyOrder,
                                            hashOrder)
          IN
          api' = [api EXCEPT
                    !.h = h,
                    !.by = via,
                    !.stoppedSet = FALSE,
                    !.pc = IF ~h.ok THEN "failed"
                           ELSE IF api.mode \in {"resume", "peek"}
                           THEN "write2"
                           ELSE "restored"]
    /\ UNCHANGED engineVars

\* Hasher.Checksums at the end of the data.
ApiChecksums ==
    /\ api.pc = "write2"
    /\ api.nwritten = Len(api.data)
    /\ api' = [api EXCEPT !.sums = Checksums(api.h), !.pc = "done"]
    /\ UNCHANGED engineVars

\* Compute has called Hasher.Start: the copy writes one chunk of the reader
\* into the multi-writer over h.hashes, and sends EventWritten when the
\* interval has passed.
ApiRunWrite ==
    /\ api.pc = "running"
    /\ \E c \in 1..(Len(api.data) - api.nwritten), tick \in BOOLEAN :
          api' = [api EXCEPT
                    !.h.hashes = MultiWrite(@, SubSeq(api.data, api.nwritten + 1,
                                                      api.nwritten + c)),
                    !.nwritten = @ + c,
                    !.evs = IF tick THEN Append(@, EventWritten(api.nwritten + c))
                            ELSE @]
    /\ UNCHANGED engineVars

\* The copy reaches the end of the reader: EventOK, and the channel is closed.
ApiRunOK ==
    /\ api.pc = "running"
    /\ api.nwritten = Len(api.data)
    /\ api' = [api EXCEPT !.evs = Append(@, EventOK(api.nwritten)),
                          !.pc = "closedch"]
    /\ UNCHANGED engineVars

\* The context of Compute is canceled or its deadline exceeded: EventStop with
\* the error of the context, and the channel is closed.
ApiRunStop ==
    /\ api.pc = "running"
    /\ \E err \in CtxErrors :
          api' = [api EXCEPT !.evs = Append(@, EventStop(err, api.nwritten)),
                            !.canceled = TRUE,
                            !.pc = "closedch"]
    /\ UNCHANGED engineVars

\* The reader fails (a strings.Reader never does): EventError, and the
\* channel is closed.
ApiRunError ==
    /\ api.pc = "running"
    /\ api.ctor # "FromStrings"
    /\ api' = [api EXCEPT !.evs = Append(@, EventError(ErrRead)),
                          !.pc = "closedch"]
    /\ UNCHANGED engineVars

\* Hasher.Compute returns: what its loop over the channel makes of the
\* events.
ApiCompute ==
    /\ api.pc = "closedch"
    /\ api' = [api EXCEPT !.res = Compute(api.h, api.evs), !.pc = "computed"]
    /\ UNCHANGED engineVars

\* Checksum strings a caller may give to Match: the hex digests of the set in
\* lower and in upper case, one of them cut short, the digest of an empty
\* SHA-1 and the empty string.
MatchInputs(h) ==
    LET own == {ChecksumStrings(h)[alg] : alg \in DOMAIN h.hashes} IN
    own \cup {ToUpper(x) : x \in own} \cup {SubSeq(x, 1, 2) : x \in own}
        \cup {EncodeToString(Sum("SHA-1", NewHash("SHA-1"))), <<>>}

\* Hasher.Match after Compute.
ApiMatch ==
    /\ api.pc = "computed"
    /\ api.mode = "compute"
    /\ api.res.err = NoErr
    /\ \E input \in MatchInputs(api.h), order \in Orders(DOMAIN api.h.hashes) :
          LET r == Match(api.h, input, order) IN
          api' = [api EXCEPT !.match = [input |-> input, matched |-> r.matched,
                                        alg |-> r.alg],
                            !.pc = "matched"]
    /\ UNCHANGED engineVars

\* New(hashFuncs, bufferSize) of the engine.
ApiEngineNew ==
    /\ api.pc = "start"
    /\ api.mode = "clamp"
    /\ api' = [api EXCEPT !.engine = New(api.algs, api.b), !.pc = "clamped"]
    /\ UNCHANGED engineVars

\* New called with the buffer size of the Hasher: updateBufferSize applied
\* to its own result.
ApiEngineNewAgain ==
    /\ api.pc = "clamped"
    /\ api' = [api EXCEPT
                 !.again = New(api.algs, api.engine.bufferSize).bufferSize,
                 !.pc = "reclamped"]
    /\ UNCHANGED engineVars

\* What a call of an accessor of the Hasher returns.
PeekValue(h, kind, alg, order) ==
    CASE kind = "Checksums" -> Checksums(h)
      [] kind = "ChecksumStrings" -> ChecksumStrings(h)
      [] kind = "States" -> States(h).states
      [] kind = "Match" ->
           [x \in {"matched"} |-> Match(h, ChecksumStrings(h)[alg], order).alg]

\* C34 mutant: taking the digests resets the accumulators.
ApiPeekResetting ==
    /\ api.mode = "peek"
    /\ api.pc \in {"stopped", "done"}
    /\ api.peeks < MaxCalls
    /\ \E kind \in {"Checksums", "ChecksumStrings", "Match", "States"},
          alg \in DOMAIN api.h.hashes, order \in Orders(DOMAIN api.h.hashes) :
          api' = [api EXCEPT
                    !.peeks = @ + 1,
                    !.peek = [kind |-> kind, at |-> api.pc,
                              value |-> PeekValue(api.h, kind, alg, order)],
                    !.h.hashes = IF kind = "States" THEN @
                                 ELSE [a \in DOMAIN @ |-> NewHash(a)]]
    /\ UNCHANGED engineVars

\* Checksums, ChecksumStrings, Match or States called when no worker is
\* running on the Hasher, after EventStop (before the next Start or the
\* export) or after EventOK: hash.Sum(nil) and MarshalBinary leave the
\* accumulator as it is.  The calls are not goroutine-safe and are not made
\* while a run writes the accumulators.
ApiPeek ==
    /\ api.mode = "peek"
    /\ api.pc \in {"stopped", "done"}
    /\ api.peeks < MaxCalls
    /\ \E kind \in {"Checksums", "ChecksumStrings", "Match", "States"},
          alg \in DOMAIN api.h.hashes, order \in Orders(DOMAIN api.h.hashes) :
          api' = [api EXCEPT
                    !.peeks = @ + 1,
                    !.peek = [kind |-> kind, at |-> api.pc,
                              value |-> PeekValue(api.h, kind, alg, order)]]
    /\ UNCHANGED engineVars

\* The worker of the engine finds the context done at its poll, Len(data)
\* bytes hashed into the accumulators xh: the event its ctx.Done() branch
\* sends before it returns.
ApiCtxDone ==
    /\ api.pc = "start"
    /\ api.mode = "export"
    /\ api' = [api EXCEPT !.sent = ctxDoneEvent(api.xh, Len(api.data)),
                          !.pc = "exported"]
    /\ UNCHANGED engineVars

\* The orders in which a range loop may visit the registry.
RegistryOrders == Orders(hashAlgsToNewFuncs)

\* A call of SupportedHashAlgs.
ApiSupportedHashAlgs ==
    /\ api.pc = "start"
    /\ api.mode = "list"
    /\ Len(api.listings) < MaxCalls
    /\ \E order \in RegistryOrders :
          api' = [api EXCEPT !.listings = Append(@, SupportedHashAlgsFrom(order))]
    /\ UNCHANGED engineVars

\* A call of GetAvailableHashFuncs.
ApiGetAvailableHashFuncs ==
    /\ api.pc = "start"
    /\ api.mode = "list"
    /\ Len(api.available) < MaxCalls
    /\ api' = [api EXCEPT !.available = Append(@, GetAvailableHashFuncs)]
    /\ UNCHANGED engineVars

\* Hasher.Close, once the computing is stopped or done.
ApiClose ==
    /\ api.pc \in {"stopped", "done"}
    /\ api' = [api EXCEPT !.closes = @ + HasherClose(api.h), !.pc = "closed"]
    /\ UNCHANGED engineVars

NextAPI ==
    \/ ApiGetHashesAndWriter
    \/ ApiStop
    \/ ApiStartAgain
    \/ ApiClose
    \/ ApiSupportedHashAlgs
    \/ ApiGetAvailableHashFuncs
    \/ ApiNew
    \/ ApiWrite
    \/ ApiStates
    \/ ApiNewWithStates
    \/ ApiChecksums
    \/ ApiRunWrite
    \/ ApiRunOK
    \/ ApiRunStop
    \/ ApiRunError
    \/ ApiCompute
    \/ ApiMatch
    \/ ApiEngineNew
    \/ ApiEngineNewAgain
    \/ ApiPeek
    \/ ApiCtxDone

SpecAPI == InitAPI /\ [][NextAPI]_vars

\* ------------------------------------------ hasher.go: claims
\* The names of an algorithm list (all supported ones for a nil list).
NamesOf(algs) == IF algs.isNil THEN hashAlgsToNewFuncs ELSE Range(algs.elems)

\* C3: writing the first k bytes into a fresh set, exporting the states,
\* restoring a new set from them and writing the rest gives, for every
\* algorithm, chunking and split point, the digest of writing all the bytes
\* into one fresh set; the restore of the exported states of a set of at
\* least one algorithm by NewWithStates is never refused.
C3_ResumeRoundTrip ==
    /\ api.pc = "done" =>
          /\ DOMAIN api.sums = NamesOf(api.algs)
          /\ api.sums = ChecksumsOf(HashesAfter(NamesOf(api.algs), api.data))
    /\ (api.pc = "failed" /\ api.mode = "resume" /\ NamesOf(api.algs) # {}
          /\ WithStatesOf(api.ctor) = "NewWithStates")
          => api.saved.isNil

\* C3 witness: two algorithms, a split strictly inside the data.
C3_Witness ==
    /\ api.pc = "done"
    /\ api.k > 0
    /\ api.k < Len(api.data)
    /\ Cardinality(DOMAIN api.sums) = 2

\* The list holds a name outside the registry.
HasUnsupported(algs) ==
    ~algs.isNil /\ \E i \in 1..Len(algs.elems) :
                      algs.elems[i] \notin hashAlgsToNewFuncs

\* The creation calls of the scenario have returned.
Created == api.mode = "resume" /\ api.pc \notin {"start", "new"}

\* C8: creating a set with a name outside the closed set fails with the
\* unsupported-algorithm error and returns no accumulators, also when other
\* names of the list are supported.
C8_UnsupportedConstructsNothing ==
    (Created /\ HasUnsupported(api.algs)) =>
        /\ api.pc = "failed"
        /\ api.h = NoHasher(ErrUnSupportedHashAlg)
        /\ api.g = [ok |-> FALSE, hashes |-> EmptyMap,
                    err |-> ErrUnSupportedHashFunc]

\* C8 witness: a supported name followed by SHA-3 was refused.
C8_Witness ==
    /\ Created
    /\ api.algs = MkSlice(<<"MD5", "SHA-3">>)
    /\ ~api.h.ok

\* C9: creating a set with a nil or zero-length list fails with the
\* no-algorithm error, and every set created holds at least one accumulator.
C9_EmptyListRefused ==
    /\ (Created /\ (api.algs.isNil \/ Len(api.algs.elems) = 0)) =>
          /\ ~api.g.ok /\ api.g.err = ErrNoHashFunc
          /\ ~api.h.ok /\ api.h.err = ErrNoHashFunc
    /\ api.h.ok => DOMAIN api.h.hashes # {}

\* The restore call of mode "restore" has returned.
Restored == api.mode = "restore" /\ api.pc # "start"

\* C10: restoring from a nil or empty states mapping fails with the
\* no-state error and returns no hasher.
C10_NoStatesRefused ==
    (Restored /\ (api.st.isNil \/ DOMAIN api.st.m = {})) =>
        /\ ~api.h.ok
        /\ api.h.err = ErrNoStates

\* The errors UnmarshalBinary reports for a malformed blob.
ImportErrors == {ErrInvalidHashStateIdentifier, ErrInvalidHashStateSize}

\* Some blob of the mapping is malformed for the algorithm of its key.
Malformed(m) == \E alg \in DOMAIN m : UnmarshalErr(alg, m[alg]) # NoErr

\* C12: a set restored from a states mapping holds exactly the keys of the
\* mapping, each accumulator in the state of its blob; when the keys are
\* supported and a blob is malformed the restore fails with the import
\* error and returns no hasher, whatever was imported before.
C12_RestoredSetIsKeysOrNothing ==
    Restored =>
        /\ api.h.ok =>
              /\ DOMAIN api.h.hashes = DOMAIN api.st.m
              /\ \A alg \in DOMAIN api.h.hashes :
                    MarshalBinary(alg, api.h.hashes[alg]) = api.st.m[alg]
        /\ (/\ ~api.st.isNil
            /\ DOMAIN api.st.m # {}
            /\ DOMAIN api.st.m \subseteq hashAlgsToNewFuncs
            /\ Malformed(api.st.m)) =>
              \E e \in ImportErrors : api.h = NoHasher(e)

\* C12 witness: a mapping of two supported keys, the blob of one malformed,
\* was refused.
C12_Witness ==
    /\ Restored
    /\ Cardinality(DOMAIN api.st.m) = 2
    /\ DOMAIN api.st.m \subseteq hashAlgsToNewFuncs
    /\ Malformed(api.st.m)
    /\ ~api.h.ok

\* The five identifiers in lexical order.
SortedFive == <<"CRC-32", "MD5", "SHA-1", "SHA-256", "SHA-512">>

\* C13: every call of a listing of the supported algorithms returns the five
\* identifiers CRC-32, MD5, SHA-1, SHA-256, SHA-512 in lexical order, the
\* same sequence on every call.
C13_ListingSortedAndStable ==
    /\ \A i \in 1..Len(api.listings) : api.listings[i] = SortedFive
    /\ \A i \in 1..Len(api.available) : api.available[i] = SortedFive

\* C14: algorithm identifiers are case-insensitive and canonicalised to
\* upper case: a set requested as "md5" is the set requested as "MD5", with
\* the accumulator under the key "MD5".
C14_CaseInsensitiveNames ==
    (Created /\ api.algs = MkSlice(<<"md5">>)) =>
        /\ api.g = getHashesAndWriter(MkSlice(<<"MD5">>))
        /\ api.h.ok
        /\ DOMAIN api.h.hashes = {"MD5"}

\* C18: a zero-length resume round-trips.  The states exported before any
\* byte was written are accepted, with computed = 0, by the constructor that
\* continues the work, and the set created from them gives the digests of
\* a fresh set over the whole data.
C18_ZeroLengthResume ==
    (/\ api.mode = "resume"
     /\ api.k = 0
     /\ ~api.saved.isNil
     /\ NamesOf(api.algs) # {}
     /\ api.pc # "restore") =>
        /\ api.pc # "failed"
        /\ api.pc = "done" =>
              api.sums = ChecksumsOf(HashesAfter(NamesOf(api.algs), api.data))

\* C19: once the run on a set has been interrupted, no further Start on
\* that set goes on to write into it.
C19_StoppedSetNotWritten ==
    api.stoppedSet => api.pc \notin {"write2", "done"}

\* The constructors whose Hasher owns the reader it opened.
OwningConstructors ==
    {"FromFile", "FromFileWithStates", "FromUrl", "FromUrlWithStates"}

\* C20: Close on a Hasher created by FromFile, FromFileWithStates, FromUrl
\* or FromUrlWithStates closes the reader once; Close on a Hasher created by
\* New, NewWithStates or FromStrings does not close the reader.
C20_CloseClosesOwnedReader ==
    api.pc = "closed" =>
        api.closes = IF api.by \in OwningConstructors THEN 1 ELSE 0

\* C24: New, FromStrings, FromFile and FromUrl called without algorithm
\* names (a nil list) return no error and a hasher with one fresh
\* accumulator for each of the supported algorithms, and no other.
C24_NilListIsAllSupported ==
    (api.algs.isNil /\ api.by \in Constructors) =>
        /\ api.h.ok
        /\ api.h.err = NoErr
        /\ DOMAIN api.h.hashes = Range(SortedFive)
        /\ api.pc = "write1" =>
              api.h.hashes = [alg \in Range(SortedFive) |-> NewHash(alg)]

\* C24 witness: FromFile without names has returned its hasher.
C24_Witness ==
    /\ api.algs.isNil
    /\ api.by = "FromFile"
    /\ api.pc = "write1"
    /\ Cardinality(DOMAIN api.h.hashes) = 5

\* The bytes of a sequence of strings, one string after the other.
Concatenation(strs) ==
    IF Len(strs) = 1 THEN strs[1] ELSE strs[1] \o strs[2]

\* C21: Compute on a hasher built by FromStrings, with a context that is
\* never canceled, returns for each requested algorithm the digest of the
\* concatenation of the strings in order, the sum of their lengths as the
\* number of bytes written, and a nil error.
C21_ComputeOverStrings ==
    (api.pc = "computed" /\ api.by = "FromStrings" /\ ~api.canceled) =>
        LET all == Concatenation(api.strs)
            total == IF Len(api.strs) = 1 THEN Len(api.strs[1])
                     ELSE Len(api.strs[1]) + Len(api.strs[2])
        IN /\ api.res.err = NoErr
           /\ api.res.written = total
           /\ ~api.res.checksums.isNil
           /\ api.res.checksums.m =
                 [alg \in NamesOf(api.algs) |->
                    Sum(alg, WriteBytes(alg, NewHash(alg), all))]

\* C21 witness: Compute has returned for two non-empty strings and two
\* algorithms.
C21_Witness ==
    /\ api.pc = "computed"
    /\ api.by = "FromStrings"
    /\ ~api.canceled
    /\ Len(api.strs) = 2
    /\ api.strs[1] # <<>>
    /\ api.strs[2] # <<>>
    /\ Cardinality(DOMAIN api.res.checksums.m) = 2

\* The terminal events of a channel, and the place of the first one.
Terminals(evs) ==
    {i \in 1..Len(evs) : evs[i].type \in {"Error", "Stop", "OK"}}
FirstTerminal(evs) ==
    CHOOSE i \in Terminals(evs) : \A j \in Terminals(evs) : i <= j

\* C22: Compute returns checksums, the number of bytes written and a nil
\* error exactly when the terminal event is OK, the checksums having one
\* entry for each accumulator; for Stop or Error it returns nil checksums,
\* zero bytes and the non-nil error of the event; for a channel closed
\* without a terminal event it returns ErrNoChecksums.  It never returns nil
\* checksums with a nil error.
C22_ComputeFollowsTerminalEvent ==
    api.pc = "computed" =>
        /\ ~(api.res.checksums.isNil /\ api.res.err = NoErr)
        /\ IF Terminals(api.evs) = {}
           THEN api.res = [checksums |-> NilMap, written |-> 0,
                           err |-> ErrNoChecksums]
           ELSE LET ev == api.evs[FirstTerminal(api.evs)] IN
                IF ev.type = "OK"
                THEN /\ api.res.err = NoErr
                     /\ api.res.written = ev.written
                     /\ ~api.res.checksums.isNil
                     /\ api.res.checksums.m =
                           [alg \in DOMAIN api.h.hashes |->
                              Sum(alg, api.h.hashes[alg])]
                ELSE /\ api.res.checksums.isNil
                     /\ api.res.written = 0
                     /\ api.res.err = ev.err
                     /\ api.res.err # NoErr

\* C22 witness: Compute has returned for a run that was interrupted after
\* it had written bytes.
C22_Witness ==
    /\ api.pc = "computed"
    /\ api.mode = "compute"
    /\ api.canceled
    /\ api.nwritten > 0
    /\ api.res.checksums.isNil

\* C23: Match returns true and an algorithm of the set exactly when the
\* lower-cased checksum string is the hex digest of that algorithm's
\* accumulator, and false with an empty name otherwise.
C23_MatchFindsDigest ==
    api.pc = "matched" =>
        LET hits == {alg \in DOMAIN api.h.hashes :
                       EncodeToString(Sum(alg, api.h.hashes[alg]))
                         = ToLower(api.match.input)}
        IN /\ api.match.matched <=> hits # {}
           /\ api.match.matched => api.match.alg \in hits
           /\ ~api.match.matched => api.match.alg = ""

\* C23 witness: an upper-case checksum string has matched in a set of two
\* algorithms.
C23_Witness ==
    /\ api.pc = "matched"
    /\ api.match.matched
    /\ api.match.input # ToLower(api.match.input)
    /\ Cardinality(DOMAIN api.h.hashes) = 2

\* C30: a run started on a Hasher after another run of the same Hasher
\* writes into accumulators the earlier run did not write, so what
\* they hold depends on the bytes of the later run only.
C30_RunsWriteSeparateSets ==
    (api.stoppedSet /\ api.pc \in {"write2", "done"}) =>
        api.h.hashes =
          HashesAfter(NamesOf(api.algs),
                      SubSeq(api.data, api.k + 1, api.nwritten))

\* A size is positive; a size is at most MaxBufSize (4 GiB).
SizePositive(b) == b.gib > 0 \/ (b.gib = 0 /\ b.rem > 0)
SizeWithinMax(b) == b.gib < 4 \/ (b.gib = 4 /\ b.rem = 0)

\* C33: the buffer size of a Hasher built by New lies in [1, MaxBufSize]: it
\* is the size given when that is positive and at most MaxBufSize,
\* DefBufSize when it is zero or less, MaxBufSize when it is larger; New
\* refuses no size, and clamping a clamped size changes nothing.
C33_BufferSizeClamped ==
    api.pc \in {"clamped", "reclamped"} =>
        LET r == api.engine.bufferSize IN
        /\ SizePositive(r)
        /\ SizeWithinMax(r)
        /\ (SizePositive(api.b) /\ SizeWithinMax(api.b)) => r = api.b
        /\ ~SizePositive(api.b) => r = Size(0, 32 * 1024)
        /\ ~SizeWithinMax(api.b) => r = Size(4, 0)
        /\ api.pc = "reclamped" => api.again = r

\* C33 witness: a negative size was replaced by the default, and clamped
\* again.
C33_Witness ==
    /\ api.pc = "reclamped"
    /\ api.b.gib < 0
    /\ api.again = DefBufSize

\* C34: Checksums, ChecksumStrings, Match and States leave the accumulators
\* as they are.  A call changes nothing in the Hasher; with such calls made
\* between the writes of one run and those of the next the states exported
\* and the digests taken later are those of a set on which none was made;
\* and at the end of the data every call returns the digests Checksums
\* returned.
C34_AccessorsReadOnly ==
    /\ [](api.mode = "peek" =>
            LET names == NamesOf(api.algs)
                final == HashesAfter(names, api.data)
            IN
            /\ ~api.saved.isNil =>
                  api.saved.m =
                    [alg \in names |->
                       MarshalBinary(alg, HashesAfter(names,
                                            SubSeq(api.data, 1, api.k))[alg])]
            /\ api.pc = "done" =>
                  api.sums = [alg \in names |-> Sum(alg, final[alg])]
            /\ (api.peek.at = "done" /\ api.peek.kind = "Checksums") =>
                  api.peek.value = api.sums
            /\ (api.peek.at = "done" /\ api.peek.kind = "ChecksumStrings") =>
                  api.peek.value =
                    [alg \in names |-> EncodeToString(api.sums[alg])]
            /\ (api.peek.at = "done" /\ api.peek.kind = "Match") =>
                  api.peek.value["matched"] \in names)
    /\ [][(api.mode = "peek" /\ api'.peeks # api.peeks) =>
            (api'.h = api.h /\ api'.nwritten = api.nwritten
             /\ api'.sums = api.sums /\ api'.saved = api.saved)]_vars

\* C34 witness: two calls were made after the first run had stopped, the
\* Hasher was started again and wrote the rest, and the digests were taken
\* at the end.
C34_Witness ==
    /\ api.mode = "peek"
    /\ api.pc = "done"
    /\ api.stoppedSet
    /\ api.peeks = 2
    /\ api.peek.at = "stopped"
    /\ api.peek.kind = "Checksums"
    /\ api.nwritten > api.k
    /\ api.k > 0

\* C36: a run that ends before its first copy has read nothing from the
\* source.  When the run ends with the Error of the construction of the
\* accumulators or of the import of the states, or with a Stop whose
\* computed is 0, the source is at the offset it was started at; that Stop
\* carries the snapshots of the accumulators as imported or as created.  No
\* step of the setup, of the ticker or of the poll reads the source.
C36_NoReadBeforeFirstCopy ==
    /\ [](\A i \in 1..Len(Sent) :
            /\ (Sent[i].type = "Error"
                  /\ Sent[i].err \in ConfigErrors \cup ImportErrors) =>
                  (pos = base /\ computed = 0 /\ written = 0)
            /\ (Sent[i].type = "Stop" /\ Sent[i].computed = 0) =>
                  /\ pos = base
                  /\ Sent[i].data =
                        [name \in DOMAIN hashes |->
                           MarshalBinary(name, StartHashes[name])])
    /\ [][(pc \in {"setup", "ticker", "poll"} /\ runNo' = runNo) =>
            pos' = pos]_vars

\* C36 witness: a run started from saved states on a source that has bytes
\* was canceled before its first poll and ended in Stop with computed 0 and
\* the states it was given.
C36_Witness ==
    /\ closed
    /\ ~states.isNil
    /\ LastEvent.type = "Stop"
    /\ LastEvent.computed = 0
    /\ LastEvent.data = states.m
    /\ Len(src.data) > 0
    /\ pos = 0

\* The consumer stopped receiving before it got a terminal event.
Undelivered ==
    /\ consumer = "gone"
    /\ \A i \in 1..Len(received) : ~IsTerminal(received[i])

\* C37: when the consumer stops receiving before the terminal event, the
\* channel is never closed and the consumer gets no further event; a worker
\* that is at a send stays at that send with that event, whether or not the
\* context is canceled.
C37_SendNotAbandoned ==
    /\ [](Undelivered => (~closed /\ pc \notin {"return", "done"}))
    /\ [][consumer = "gone" =>
            /\ consumer' = "gone"
            /\ received' = received
            /\ pc = "send" => (pc' = "send" /\ ch' = ch /\ closed' = closed)
         ]_vars

\* C37 witness: the consumer is gone, the worker is sending the OK event of
\* a run that hashed bytes, and the context has been canceled since.
C37_Witness ==
    /\ Undelivered
    /\ pc = "send"
    /\ ch.type = "OK"
    /\ ch.computed > 0
    /\ ctxDone

\* C38: the checksums of every OK event and the states of every Stop event
\* have exactly the algorithm names the Hasher was built with as keys, one
\* entry for each distinct name, in first runs and in resumed ones.
C38_KeysAreRequestedNames ==
    \A i \in 1..Len(Sent) :
        Sent[i].type \in {"OK", "Stop"} =>
            /\ DOMAIN Sent[i].data = Requested
            /\ DOMAIN Sent[i].data = DOMAIN hashes
            /\ ~states.isNil => DOMAIN Sent[i].data = DOMAIN states.m

\* C38 witness: a Hasher built with the same name twice was stopped, then
\* resumed from the one state of the Stop event, and ended in OK with one
\* checksum.
C38_Witness ==
    /\ hasher.hashFuncs.elems = <<"MD5", "MD5">>
    /\ runNo = 2
    /\ LastEvent.type = "OK"
    /\ DOMAIN LastEvent.data = {"MD5"}
    /\ DOMAIN states.m = {"MD5"}

====
